---- MODULE Spec2Model ----
(***************************************************************************)
(* Model of the PV Calculator API (src/main.py): the POST /calculate route *)
(* with its handler calculate_pv and the two helpers calculate_psh and     *)
(* generate_monthly_energy, served to several clients while the wall-clock *)
(* month advances.                                                         *)
(*                                                                         *)
(* Numbers.  Every quantity of the program is a Python float (IEEE-754     *)
(* binary64).  A float is modelled as a record [c, n, d]:                  *)
(*   c = "fin"  the value n/d, a reduced fraction (d > 0): a double of the *)
(*              normal range.  Arithmetic on these is exact: the relative  *)
(*              rounding error of at most 2^-53 per operation is left out; *)
(*   c = "sub"  the value n * 2^-1074 (d = 1, n # 0): a double of the      *)
(*              subnormal range, where every result is rounded to a whole  *)
(*              multiple of 2^-1074, ties to even, exactly as modelled;    *)
(*   c = "big"  the value (n/d) * DBL_MAX with 0 < |n/d| <= 1; a result    *)
(*              beyond DBL_MAX overflows to an infinity;                   *)
(*   c = "inf"  an infinity of sign n;      c = "nan"  not-a-number.       *)
(* Operand pairs the program never produces from the modelled inputs       *)
(* (big with sub, fin divided by sub or by big) have no CASE arm, so TLC   *)
(* stops with an error should one ever be evaluated.                       *)
(***************************************************************************)
EXTENDS Integers, Sequences, FiniteSets, TLC

\* Number of /calculate requests (client connections) in SpecPar.
MaxReq == 2

\* Number of month changes of the wall clock that are followed.
MaxTicks == 2

----------------------------------------------------------------------------
\* Integer helpers of the float model.

Abs(x) == IF x < 0 THEN -x ELSE x

Sgn(x) == IF x < 0 THEN -1 ELSE IF x > 0 THEN 1 ELSE 0

RECURSIVE Gcd(_, _)
Gcd(a, b) == IF b = 0 THEN a ELSE Gcd(b, a % b)

\* n/d (d > 0) rounded to the nearest integer, ties to even (IEEE default).
RoundHalfEven(n, d) ==
  LET q == n \div d
      r == n - q * d
  IN  IF 2 * r < d THEN q
      ELSE IF 2 * r > d THEN q + 1
      ELSE IF q % 2 = 0 THEN q ELSE q + 1

----------------------------------------------------------------------------
\* Float values.

Rat(n, d) ==
  LET g == Gcd(Abs(n), Abs(d))
      s == IF d < 0 THEN -1 ELSE 1
  IN  [c |-> "fin", n |-> s * (n \div g), d |-> s * (d \div g)]

F(k) == [c |-> "fin", n |-> k, d |-> 1]

Zero == F(0)

One == F(1)

NaN == [c |-> "nan", n |-> 0, d |-> 1]

Inf(s) == [c |-> "inf", n |-> s, d |-> 1]

\* q * 2^-1074; q = 0 is the float 0.0.
Sub(q) == IF q = 0 THEN Zero ELSE [c |-> "sub", n |-> q, d |-> 1]

\* r * DBL_MAX for the fraction r; beyond DBL_MAX it is an infinity.
Big(r) ==
  IF r.n = 0 THEN Zero
  ELSE IF Abs(r.n) > r.d THEN Inf(Sgn(r.n))
  ELSE [c |-> "big", n |-> r.n, d |-> r.d]

\* sys.float_info.max and the smallest positive float.
MaxFloat == Big(One)

MinFloat == Sub(1)

IsZero(a) == a.c = "fin" /\ a.n = 0

\* Exact product and quotient of two fractions, reduced crosswise first.
RatMul(a, b) ==
  LET g1 == Gcd(Abs(a.n), b.d)
      g2 == Gcd(Abs(b.n), a.d)
  IN  Rat((a.n \div g1) * (b.n \div g2), (a.d \div g2) * (b.d \div g1))

RatDiv(a, b) == RatMul(a, Rat(b.d, b.n))

RatAdd(a, b) ==
  LET g == Gcd(a.d, b.d)
  IN  Rat(a.n * (b.d \div g) + b.n * (a.d \div g), (a.d \div g) * b.d)

FNeg(a) == [a EXCEPT !.n = -a.n]

FAbs(a) == [a EXCEPT !.n = Abs(a.n)]

\* a * b
FMul(a, b) ==
  CASE a.c = "nan" \/ b.c = "nan" -> NaN
    [] a.c = "inf" \/ b.c = "inf" ->
         IF IsZero(a) \/ IsZero(b) THEN NaN ELSE Inf(Sgn(a.n) * Sgn(b.n))
    [] IsZero(a) \/ IsZero(b) -> Zero
    [] a.c = "fin" /\ b.c = "fin" -> RatMul(a, b)
    [] a.c = "sub" /\ b.c = "fin" -> Sub(RoundHalfEven(a.n * b.n, b.d))
    [] a.c = "fin" /\ b.c = "sub" -> Sub(RoundHalfEven(b.n * a.n, a.d))
    [] a.c = "sub" /\ b.c = "sub" -> Zero
    [] a.c = "big" /\ b.c = "fin" -> Big(RatMul(a, b))
    [] a.c = "fin" /\ b.c = "big" -> Big(RatMul(a, b))
    [] a.c = "big" /\ b.c = "big" -> Inf(Sgn(a.n) * Sgn(b.n))

\* a / b for b # 0 (Python raises ZeroDivisionError before dividing by 0.0).
FDiv(a, b) ==
  CASE a.c = "nan" \/ b.c = "nan" -> NaN
    [] a.c = "inf" -> IF b.c = "inf" THEN NaN ELSE Inf(Sgn(a.n) * Sgn(b.n))
    [] b.c = "inf" -> Zero
    [] IsZero(a) -> Zero
    [] a.c = "fin" /\ b.c = "fin" -> RatDiv(a, b)
    [] a.c = "sub" /\ b.c = "sub" -> Rat(a.n, b.n)
    [] a.c = "sub" /\ b.c = "fin" ->
         Sub(RoundHalfEven(a.n * b.d * Sgn(b.n), Abs(b.n)))
    [] a.c = "big" /\ b.c = "fin" -> Big(RatDiv(a, b))
    [] a.c = "big" /\ b.c = "big" -> RatDiv(a, b)

\* a + b; next to a normal or huge value a smaller class is absorbed.
FAdd(a, b) ==
  CASE a.c = "nan" \/ b.c = "nan" -> NaN
    [] a.c = "inf" /\ b.c = "inf" -> IF a.n = b.n THEN a ELSE NaN
    [] a.c = "inf" /\ b.c # "inf" -> a
    [] a.c # "inf" /\ b.c = "inf" -> b
    [] IsZero(a) -> b
    [] IsZero(b) -> a
    [] a.c = "fin" /\ b.c = "fin" -> RatAdd(a, b)
    [] a.c = "sub" /\ b.c = "sub" -> Sub(a.n + b.n)
    [] a.c = "big" /\ b.c = "big" -> Big(RatAdd(a, b))
    [] a.c = "big" /\ b.c # "big" -> a
    [] a.c # "big" /\ b.c = "big" -> b
    [] a.c = "fin" /\ b.c = "sub" -> a
    [] a.c = "sub" /\ b.c = "fin" -> b

FSub(a, b) == FAdd(a, FNeg(b))

\* a < b, a > b, a >= b: every comparison with a NaN is false.
FLt(a, b) == LET x == FSub(a, b) IN x.c # "nan" /\ x.n < 0

FGt(a, b) == FLt(b, a)

FGe(a, b) == LET x == FSub(a, b) IN x.c # "nan" /\ x.n >= 0

\* int(a) read as math.floor(a): rounding toward minus infinity.
FIntFloor(a) ==
  CASE a.c = "fin" -> a.n \div a.d
    [] a.c = "sub" -> IF a.n < 0 THEN -1 ELSE 0

\* int(a) for finite a: truncation toward zero.
FInt(a) ==
  CASE a.c = "fin" -> Sgn(a.n) * (Abs(a.n) \div a.d)
    [] a.c = "sub" -> 0

\* sum(values): Python starts from 0 and adds from the left.
RECURSIVE FSumFrom(_, _, _)
FSumFrom(acc, values, i) ==
  IF i > Len(values) THEN acc ELSE FSumFrom(FAdd(acc, values[i]), values, i + 1)

FSum(values) == FSumFrom(Zero, values, 1)

----------------------------------------------------------------------------
\* The request and response schemas.

\* class PVRequest: the values a client may send for each field.
Latitudes == {F(-90), F(-25), F(0), F(25), F(90), F(200)}

Longitudes == {F(0), F(107)}

Capacities == {F(-5), F(0), F(1), F(5), MinFloat, MaxFloat}

Efficiencies == {Rat(9, 50), Rat(1, 5)}

LossValues == {Rat(7, 50), F(1)}

Requests ==
  [latitude : Latitudes, longitude : Longitudes, system_capacity : Capacities,
   panel_efficiency : Efficiencies, system_losses : LossValues]

\* The requests of the concurrent specification SpecPar.
ParRequests ==
  {r \in Requests :
     /\ r.latitude = F(-25)
     /\ r.system_capacity \in {F(0), F(5)}
     /\ r.system_losses = Rat(7, 50)
     /\ (r.longitude = F(0)) = (r.panel_efficiency = Rat(9, 50))
     /\ IsZero(r.system_capacity) => r.longitude = F(0)}

\* class PVResponse: the fields the response schema requires.
PVResponse ==
  {"annual_energy", "monthly_energy", "capacity_factor", "psh_annual",
   "roi_period", "panel_count", "required_area", "system_cost",
   "annual_savings"}

Months == 1 .. 12

----------------------------------------------------------------------------
\* The helpers.

\* math.sin(2 * math.pi * k / 12) for k = current_month - 6 in -5 .. 6.
\* sin(pi/3) = 0.866... is the fraction 13/15; the float sin(pi) is 1.2e-16,
\* here 0.
SinTwelfths(k) ==
  LET a == Abs(k)
      v == CASE a \in {0, 6} -> Zero
             [] a \in {1, 5} -> Rat(1, 2)
             [] a \in {2, 4} -> Rat(13, 15)
             [] a = 3 -> One
  IN  IF k < 0 THEN FNeg(v) ELSE v

\* The clamp without its lower bound: min(6.0, psh).
ClampUpperOnly(psh) == IF FLt(psh, F(6)) THEN psh ELSE F(6)

\* max(2.0, min(6.0, psh)): min and max keep their first argument unless the
\* second compares strictly smaller (larger).
Clamp(psh) ==
  LET lower == IF FLt(psh, F(6)) THEN psh ELSE F(6)
  IN  IF FGt(lower, F(2)) THEN lower ELSE F(2)

\* calculate_psh with the latitude effect taken from lon.
calculate_pshOfLon(lat, lon, current_month) ==
  LET base_psh == Rat(9, 2)
      lat_effect == FMul(FAbs(lon), Rat(1, 50))
      seasonal_factor ==
        FAdd(One, FMul(Rat(1, 10), SinTwelfths(current_month - 6)))
      psh == FMul(FSub(base_psh, lat_effect), seasonal_factor)
  IN  Clamp(psh)

\* calculate_psh(lat, lon), with the month datetime.now() returns.
calculate_psh(lat, lon, current_month) ==
  LET base_psh == Rat(9, 2)
      lat_effect == FMul(FAbs(lat), Rat(1, 50))
      seasonal_factor ==
        FAdd(One, FMul(Rat(1, 10), SinTwelfths(current_month - 6)))
      psh == FMul(FSub(base_psh, lat_effect), seasonal_factor)
  IN  Clamp(psh)

\* base_pattern of the northern and of the southern hemisphere.
NorthPattern ==
  << Rat(6, 100), Rat(7, 100), Rat(8, 100), Rat(9, 100), Rat(10, 100),
     Rat(12, 100), Rat(12, 100), Rat(11, 100), Rat(10, 100), Rat(9, 100),
     Rat(8, 100), Rat(7, 100) >>

SouthPattern ==
  << Rat(12, 100), Rat(11, 100), Rat(10, 100), Rat(9, 100), Rat(8, 100),
     Rat(7, 100), Rat(7, 100), Rat(8, 100), Rat(9, 100), Rat(10, 100),
     Rat(11, 100), Rat(12, 100) >>

\* The hemisphere test as lat > 0.
BasePatternStrict(lat) ==
  IF FGt(lat, Zero) THEN NorthPattern ELSE SouthPattern

\* if lat >= 0: the northern table, else the southern one.
BasePattern(lat) == IF FGe(lat, Zero) THEN NorthPattern ELSE SouthPattern

\* generate_monthly_energy without the normalisation by total.
generate_monthly_energyRaw(annual_energy, lat) ==
  LET base_pattern == BasePattern(lat)
  IN  [i \in 1 .. Len(base_pattern) |-> FMul(annual_energy, base_pattern[i])]

\* generate_monthly_energy(annual_energy, lat)
generate_monthly_energy(annual_energy, lat) ==
  LET base_pattern == BasePattern(lat)
      total == FSum(base_pattern)
      normalized_pattern ==
        [i \in 1 .. Len(base_pattern) |-> FDiv(base_pattern[i], total)]
  IN  [i \in 1 .. Len(base_pattern) |->
         FMul(annual_energy, normalized_pattern[i])]

----------------------------------------------------------------------------
\* The handler.

\* except Exception as e: return {"error": str(e)}
ErrorDict(message) == [error |-> message]

\* annual_energy without the factor (1 - system_losses).
AnnualEnergyNoLosses(system_capacity, psh_annual, system_losses) ==
  FMul(FMul(system_capacity, psh_annual), F(365))

\* annual_energy = system_capacity * psh_annual * 365 * (1 - system_losses)
AnnualEnergy(system_capacity, psh_annual, system_losses) ==
  FMul(FMul(FMul(system_capacity, psh_annual), F(365)),
       FSub(One, system_losses))

\* capacity_factor = (annual_energy / (system_capacity * 8760)) * 100
CapacityFactor(annual_energy, system_capacity) ==
  FMul(FDiv(annual_energy, FMul(system_capacity, F(8760))), F(100))

\* roi_period with the guard annual_savings != 0.
RoiPeriodNonZero(system_cost, annual_savings) ==
  IF ~IsZero(annual_savings) THEN FDiv(system_cost, annual_savings) ELSE Zero

\* roi_period = system_cost / annual_savings if annual_savings > 0 else 0
RoiPeriod(system_cost, annual_savings) ==
  IF FGt(annual_savings, Zero) THEN FDiv(system_cost, annual_savings) ELSE Zero

\* (system_capacity * 1000) / 450, the argument of int()
Panels(system_capacity) == FDiv(FMul(system_capacity, F(1000)), F(450))

\* The exceptions of a try block whose roi_period division has no guard: it
\* raises as well when annual_savings is 0.
RaisedUnguarded(request) ==
  IF IsZero(request.system_capacity) \/ request.system_losses = One
    THEN "float division by zero"
  ELSE IF Panels(request.system_capacity).c = "inf"
    THEN "cannot convert float infinity to integer"
  ELSE ""

\* str(e) of the exception the try block raises for this request, "" when it
\* raises none: the division by system_capacity * 8760 comes first, int() of
\* an infinity or a NaN later; the division of roi_period is guarded.
Raised(request) ==
  IF IsZero(FMul(request.system_capacity, F(8760)))
    THEN "float division by zero"
  ELSE IF Panels(request.system_capacity).c = "inf"
    THEN "cannot convert float infinity to integer"
  ELSE IF Panels(request.system_capacity).c = "nan"
    THEN "cannot convert float NaN to integer"
  ELSE ""

\* The body of calculate_pv(request), with the month its one call of
\* calculate_psh reads: a PVResponse, or the dict of the except clause.
calculate_pv(request, current_month) ==
  LET psh_annual ==
        calculate_psh(request.latitude, request.longitude, current_month)
      annual_energy ==
        AnnualEnergy(request.system_capacity, psh_annual,
                     request.system_losses)
      system_cost == FMul(request.system_capacity, F(18000000))
      annual_savings == FMul(annual_energy, F(1500))
  IN  IF Raised(request) # "" THEN ErrorDict(Raised(request))
      ELSE
        [annual_energy |-> annual_energy,
         monthly_energy |->
           generate_monthly_energy(annual_energy, request.latitude),
         capacity_factor |->
           CapacityFactor(annual_energy, request.system_capacity),
         psh_annual |-> psh_annual,
         roi_period |-> RoiPeriod(system_cost, annual_savings),
         panel_count |-> FInt(Panels(request.system_capacity)),
         required_area |-> FMul(request.system_capacity, F(7)),
         system_cost |-> system_cost,
         annual_savings |-> annual_savings]

\* @app.post("/calculate", response_model=PVResponse): the framework
\* validates what the handler returned against the declared schema; a value
\* that lacks a required field is a response validation error, which the
\* client sees as 500 Internal Server Error.
Respond(returned) ==
  IF PVResponse \subseteq DOMAIN returned
    THEN [status |-> 200, body |-> returned]
    ELSE [status |-> 500, body |-> [detail |-> "Internal Server Error"]]

----------------------------------------------------------------------------
\* The server.

VARIABLES
  now_month,      \* the calendar month datetime.now() returns
  elapsed,        \* month changes since the server started
  pc,             \* per request: "idle", "pending" (sent), "done" (answered)
  request,        \* per request: the PVRequest sent
  current_month,  \* per request: the month its handler read (0: none yet)
  returned,       \* per request: what calculate_pv returned
  response        \* per request: what the client received

vars == << now_month, elapsed, pc, request, current_month, returned, response >>

Conns == 1 .. MaxReq

None == [none |-> TRUE]

Init ==
  /\ now_month \in Months
  /\ elapsed = 0
  /\ pc = [i \in Conns |-> "idle"]
  /\ request = [i \in Conns |-> None]
  /\ current_month = [i \in Conns |-> 0]
  /\ returned = [i \in Conns |-> None]
  /\ response = [i \in Conns |-> None]

\* A client posts the body r to /calculate.
Submit(i, r) ==
  /\ pc[i] = "idle"
  /\ pc' = [pc EXCEPT ![i] = "pending"]
  /\ request' = [request EXCEPT ![i] = r]
  /\ UNCHANGED << now_month, elapsed, current_month, returned, response >>

\* The route with the month kept in a module-level cache: a request served
\* after another one computes with the month that one read.
CalculateCachedMonth(i) ==
  LET cached == {current_month[j] : j \in {k \in Conns : pc[k] = "done"}}
      m == IF cached = {} THEN now_month ELSE CHOOSE x \in cached : TRUE
  IN  /\ pc[i] = "pending"
      /\ pc' = [pc EXCEPT ![i] = "done"]
      /\ current_month' = [current_month EXCEPT ![i] = now_month]
      /\ returned' = [returned EXCEPT ![i] = calculate_pv(request[i], m)]
      /\ response' = [response EXCEPT ![i] =
                        Respond(calculate_pv(request[i], m))]
      /\ UNCHANGED << now_month, elapsed, request >>

\* The route serves request i: calculate_pv runs to its return (it awaits
\* nothing), reading the clock once, and the framework answers the client.
Calculate(i) ==
  /\ pc[i] = "pending"
  /\ pc' = [pc EXCEPT ![i] = "done"]
  /\ current_month' = [current_month EXCEPT ![i] = now_month]
  /\ returned' = [returned EXCEPT ![i] = calculate_pv(request[i], now_month)]
  /\ response' = [response EXCEPT ![i] =
                    Respond(calculate_pv(request[i], now_month))]
  /\ UNCHANGED << now_month, elapsed, request >>

\* The wall clock passes into the next calendar month.
Tick ==
  /\ elapsed < MaxTicks
  /\ elapsed' = elapsed + 1
  /\ now_month' = (now_month % 12) + 1
  /\ UNCHANGED << pc, request, current_month, returned, response >>

\* One client connection, every request body of Requests.
Next ==
  \/ \E r \in Requests : Submit(1, r)
  \/ Calculate(1)
  \/ Tick

Spec == Init /\ [][Next]_vars

\* MaxReq requests in flight together, the request bodies of ParRequests.
NextPar ==
  \/ \E i \in Conns : \E r \in ParRequests : Submit(i, r)
  \/ \E i \in Conns : Calculate(i)
  \/ Tick

SpecPar == Init /\ [][NextPar]_vars

----------------------------------------------------------------------------
\* Properties.

Done(i) == pc[i] = "done"

\* Request i was answered 200 with a PVResponse body.
Ok(i) == Done(i) /\ response[i].status = 200

\* The handler of request i ended in its except clause.
Failed(i) == Done(i) /\ DOMAIN returned[i] = {"error"}

\* |x - y| <= 1e-6 * |y|, in float arithmetic.
WithinTolerance(x, y) ==
  LET diff == FAbs(FSub(x, y))
  IN  IsZero(diff) \/ FGe(FMul(FAbs(y), Rat(1, 1000000)), diff)

\* The largest of the monthly values is the value of a month of S.
PeakIn(monthly, S) ==
  \E k \in S : \A j \in 1 .. Len(monthly) : FGe(monthly[k], monthly[j])

PeakMonths(lat) == IF FGe(lat, Zero) THEN {6, 7} ELSE {12, 1}

\* C1: psh_annual of every successful response lies in [2.0, 6.0], for every
\* latitude (those of [-90, 90] included) and every month read from the clock.
C1_PshInRange ==
  \A i \in Conns :
    Ok(i) => /\ FGe(response[i].body.psh_annual, F(2))
             /\ FGe(F(6), response[i].body.psh_annual)

\* C1 witness: latitude 90 served in March, where the unclamped value is at
\* its lowest within [-90, 90].
C1_Witness ==
  \E i \in Conns :
    /\ Ok(i)
    /\ request[i].latitude = F(90)
    /\ current_month[i] = 3
    /\ response[i].body.psh_annual = Rat(243, 100)

\* C2 as claimed: for every annual_energy >= 0 the response holds 12 monthly
\* values whose sum is annual_energy within a relative 1e-6.
C2_SumForEveryEnergy ==
  \A i \in Conns :
    Ok(i) /\ FGe(response[i].body.annual_energy, Zero) =>
      /\ Len(response[i].body.monthly_energy) = 12
      /\ WithinTolerance(FSum(response[i].body.monthly_energy),
                         response[i].body.annual_energy)

\* C2 amended: for every annual_energy that is 0 or a double of the normal
\* range, the 12 monthly values sum to annual_energy (exactly, in the exact
\* arithmetic of that range) and month k holds the share of weight k of its
\* hemisphere's table, although neither weight table sums to 1.0.
C2_SumOfMonths ==
  /\ FSum(NorthPattern) # One
  /\ FSum(SouthPattern) # One
  /\ \A i \in Conns :
       /\ Ok(i)
       /\ FGe(response[i].body.annual_energy, Zero)
       /\ response[i].body.annual_energy.c = "fin"
       => /\ Len(response[i].body.monthly_energy) = 12
          /\ FSum(response[i].body.monthly_energy)
               = response[i].body.annual_energy
          /\ \A k \in 1 .. 12 :
               FMul(response[i].body.monthly_energy[k],
                    FSum(BasePattern(request[i].latitude)))
                 = FMul(response[i].body.annual_energy,
                        BasePattern(request[i].latitude)[k])

\* C2 witness: a positive annual energy spread over the southern table.
C2_Witness ==
  \E i \in Conns :
    /\ Ok(i)
    /\ FLt(request[i].latitude, Zero)
    /\ response[i].body.annual_energy.c = "fin"
    /\ FGt(response[i].body.annual_energy, Zero)
    /\ response[i].body.monthly_energy[1] # response[i].body.monthly_energy[6]

\* C3 as claimed: the largest monthly value is that of month 6 or 7 for
\* latitude >= 0 and that of month 12 or 1 for latitude < 0.
C3_PeakAlways ==
  \A i \in Conns :
    Ok(i) => PeakIn(response[i].body.monthly_energy,
                    PeakMonths(request[i].latitude))

\* C3 amended: the same, for annual_energy >= 0.
C3_PeakMonth ==
  \A i \in Conns :
    Ok(i) /\ FGe(response[i].body.annual_energy, Zero) =>
      PeakIn(response[i].body.monthly_energy, PeakMonths(request[i].latitude))

\* C3 witness: latitude 0 (northern table) with a positive annual energy.
C3_Witness ==
  \E i \in Conns :
    /\ Ok(i)
    /\ request[i].latitude = Zero
    /\ FGt(response[i].body.annual_energy, Zero)
    /\ FGt(response[i].body.monthly_energy[6],
           response[i].body.monthly_energy[1])

\* C4 as claimed: roi_period = 0 exactly when annual_savings = 0, which is
\* when annual_energy = 0; otherwise roi_period = system_cost / annual_savings.
C4_RoiZeroIffNoSavings ==
  \A i \in Conns :
    Ok(i) =>
      LET b == response[i].body
      IN  /\ IsZero(b.roi_period) <=> IsZero(b.annual_savings)
          /\ IsZero(b.annual_savings) <=> IsZero(b.annual_energy)
          /\ ~IsZero(b.annual_savings)
               => b.roi_period = FDiv(b.system_cost, b.annual_savings)

\* C4 amended: roi_period = 0 exactly when annual_savings <= 0; otherwise
\* roi_period = system_cost / annual_savings.
C4_RoiPeriod ==
  \A i \in Conns :
    Ok(i) =>
      LET b == response[i].body
      IN  /\ IsZero(b.roi_period) <=> ~FGt(b.annual_savings, Zero)
          /\ FGt(b.annual_savings, Zero)
               => b.roi_period = FDiv(b.system_cost, b.annual_savings)

\* C4 witness: a response with negative savings and roi_period 0.
C4_Witness ==
  \E i \in Conns :
    /\ Ok(i)
    /\ FLt(response[i].body.annual_savings, Zero)
    /\ IsZero(response[i].body.roi_period)

\* C5: every exception of the handler becomes a payload with the error
\* message alone, and the client receives that payload as the response.
C5_ErrorPayloadDelivered ==
  \A i \in Conns :
    Done(i) /\ "error" \in DOMAIN returned[i] =>
      /\ DOMAIN returned[i] = {"error"}
      /\ response[i].body = returned[i]

\* C6: annual_energy and capacity_factor of a successful response follow
\* from the request and from the response's own psh_annual, which is the
\* value of the one month the handler read.
C6_EnergyFormulas ==
  \A i \in Conns :
    Ok(i) =>
      LET b == response[i].body
          cap == request[i].system_capacity
      IN  /\ b.psh_annual = calculate_psh(request[i].latitude,
                                          request[i].longitude,
                                          current_month[i])
          /\ b.annual_energy
               = FMul(FMul(FMul(cap, b.psh_annual), F(365)),
                      FSub(One, request[i].system_losses))
          /\ b.capacity_factor
               = FMul(FDiv(b.annual_energy, FMul(cap, F(8760))), F(100))

\* C6 witness: capacity 5 with losses 0.14 at latitude -25 in June: psh 4,
\* annual energy 6278, capacity factor 43/3.
C6_Witness ==
  \E i \in Conns :
    /\ Ok(i)
    /\ request[i].system_capacity = F(5)
    /\ request[i].system_losses = Rat(7, 50)
    /\ response[i].body.psh_annual = F(4)
    /\ response[i].body.annual_energy = F(6278)
    /\ response[i].body.capacity_factor = Rat(43, 3)

\* The value x = system_capacity * 1000 / 450 of request i.
PanelsOf(i) == Panels(request[i].system_capacity)

\* C7 as claimed: panel_count = floor(system_capacity * 1000 / 450) for every
\* accepted system_capacity, and required_area = system_capacity * 7.
C7_PanelCountIsFloor ==
  \A i \in Conns :
    Ok(i) =>
      /\ FGe(PanelsOf(i), F(response[i].body.panel_count))
      /\ FLt(PanelsOf(i), F(response[i].body.panel_count + 1))
      /\ response[i].body.required_area
           = FMul(request[i].system_capacity, F(7))

\* C7 amended: panel_count is system_capacity * 1000 / 450 truncated toward
\* zero (the floor for system_capacity >= 0, 11 for 5.0), and required_area =
\* system_capacity * 7.
C7_PanelCount ==
  \A i \in Conns :
    Ok(i) =>
      LET count == response[i].body.panel_count
      IN  /\ FGe(FAbs(PanelsOf(i)), F(Abs(count)))
          /\ FLt(FAbs(PanelsOf(i)), F(Abs(count) + 1))
          /\ count * Sgn(PanelsOf(i).n) >= 0
          /\ request[i].system_capacity = F(5) => count = 11
          /\ response[i].body.required_area
               = FMul(request[i].system_capacity, F(7))

\* C7 witness: capacity -5, whose quotient -11.1 is truncated to -11.
C7_Witness ==
  \E i \in Conns :
    /\ Ok(i)
    /\ request[i].system_capacity = F(-5)
    /\ response[i].body.panel_count = -11
    /\ response[i].body.required_area = F(-35)

\* C8: whatever the interleaving, the failures and the clock, each answered
\* request read one month and got the response it gets when served alone
\* with that month.
C8_Independent ==
  \A i \in Conns :
    Done(i) =>
      /\ current_month[i] \in Months
      /\ returned[i] = calculate_pv(request[i], current_month[i])
      /\ response[i] = Respond(calculate_pv(request[i], current_month[i]))

\* C8 witness: a failed request and a successful one, served in different
\* months while both were in flight or one after the other.
C8_Witness ==
  \E i, j \in Conns :
    /\ Failed(i)
    /\ Ok(j)
    /\ current_month[i] # current_month[j]

\* C9: requests that agree on latitude, system_capacity and system_losses
\* and were served in the same month have identical responses.
C9_LongitudeEfficiencyUnused ==
  \A i, j \in Conns :
    /\ Done(i)
    /\ Done(j)
    /\ request[i].latitude = request[j].latitude
    /\ request[i].system_capacity = request[j].system_capacity
    /\ request[i].system_losses = request[j].system_losses
    /\ current_month[i] = current_month[j]
    => response[i] = response[j]

\* C9 witness: two successful requests of the same month that differ in
\* longitude and in panel_efficiency.
C9_Witness ==
  \E i, j \in Conns :
    /\ Ok(i)
    /\ Ok(j)
    /\ current_month[i] = current_month[j]
    /\ request[i].longitude # request[j].longitude
    /\ request[i].panel_efficiency # request[j].panel_efficiency
    /\ request[i].system_capacity = request[j].system_capacity

\* C10 as claimed: system_capacity = 0 ends in the except clause with the
\* division error of capacity_factor, and every request with finite inputs
\* and system_capacity # 0 returns all nine fields.
C10_FailsOnlyOnZeroCapacity ==
  \A i \in Conns :
    Done(i) =>
      /\ IsZero(request[i].system_capacity)
           => returned[i] = ErrorDict("float division by zero")
      /\ ~IsZero(request[i].system_capacity)
           => DOMAIN returned[i] = PVResponse

\* C10 amended: the same, for the system_capacity # 0 whose product
\* system_capacity * 1000 does not overflow to an infinity.
C10_ErrorPath ==
  \A i \in Conns :
    Done(i) =>
      /\ IsZero(request[i].system_capacity)
           => returned[i] = ErrorDict("float division by zero")
      /\ /\ ~IsZero(request[i].system_capacity)
         /\ FMul(request[i].system_capacity, F(1000)).c # "inf"
         => DOMAIN returned[i] = PVResponse

\* C10 witness: a request with no savings (losses 1) and a capacity other
\* than 0, which the guard of roi_period lets succeed.
C10_Witness ==
  \E i \in Conns :
    /\ Done(i)
    /\ ~IsZero(request[i].system_capacity)
    /\ DOMAIN returned[i] = PVResponse
    /\ IsZero(returned[i].annual_savings)
    /\ IsZero(returned[i].roi_period)

====
